---- MODULE Spec2Model ----
(***************************************************************************)
(* Model of the skye user-management application.  The frontend: the       *)
(* session store kept in localStorage, the axios client with its           *)
(* request/response interceptors, the page-level handlers of LoginPage,    *)
(* RegisterPage, UserCreatedPage and UsersPage, and the UserTable.  Every  *)
(* handler run (the code between two awaits, with every call it makes) is  *)
(* one step.  The server: AuthController and the routes of routes/api.php  *)
(* over the users and personal_access_tokens tables.                       *)
(***************************************************************************)
EXTENDS Integers, Sequences, FiniteSets, Bags, TLC

\* ------------------------------------------------------------------ bounds
MaxInflight == 2          \* requests that may be outstanding at once
MaxTimers == 1            \* RegisterForm redirect timers pending at once
MaxClicks == 3            \* header clicks followed on one mounted UserTable
MaxRecords == 3           \* length of the lists handed to the listing

\* ------------------------------------------------------- program constants
INITIAL_COUNTDOWN == 10   \* UserCreatedPage: useState(10)

\* --------------------------------------------------------------- universes
Absent == "<null>"        \* localStorage.getItem of a key that is not set
NoHeader == <<>>          \* request without an Authorization header
Keys == {"authToken", "user"}
HttpErrors == {"401", "422", "500"}        \* outcomes with error.response
Paths == {"/", "/login", "/register", "/user-created", "/users", "/other"}
NoRequest == [kind |-> "none"]
NoIdentity == [id |-> 0, name |-> "", email |-> ""]
EmptyStore == [k \in {} |-> Absent]

VARIABLES storage, location, loginPage, registerPage, usersPage, userTable,
          clicks, countdown, timers, inflight, last, engine,
          db, pending, reply

\* the browser side and the server side of the application
frontend == <<storage, location, loginPage, registerPage, usersPage, userTable,
              clicks, countdown, timers, inflight, last, engine>>
backend == <<db, pending, reply>>
vars == <<frontend, backend>>

\* the order in which the browser's sort hands two elements to the comparator
\* is left to the engine: the earlier element of the array first, or the later
Engines == {"earlierFirst", "laterFirst"}

\* ------------------------------------------------------ component states
LoginPageInit == [loading |-> FALSE, error |-> ""]
RegisterPageInit == [loading |-> FALSE, error |-> "", success |-> ""]
UsersPageInit == [users |-> <<>>, loading |-> TRUE]
\* UserTable: useState('name'), useState('asc'), the useMemo value, and
\* whether its render has thrown (the tree is then unmounted by React)
UserTableInit == [sortField |-> "name", sortDirection |-> "asc",
                  sortedUsers |-> <<>>, threw |-> FALSE]

\* ------------------------------------------------------ JavaScript values
\* a string is the sequence of its UTF-16 code units; a Date is an object
\* that holds the instant it denotes, or no instant (Invalid Date); null and
\* undefined are the values of a field that is null or missing
JString(chars) == [type |-> "string", class |-> "String", chars |-> chars]
JDate(time) == [type |-> "object", class |-> "Date", time |-> time]
InvalidDate == [type |-> "object", class |-> "InvalidDate"]
JNull == [type |-> "object", class |-> "Null"]
JUndefined == [type |-> "undefined", class |-> "Undefined"]
typeof(v) == v.type

\* String.prototype.toLowerCase on the ASCII letters A-Z
toLowerCase(v) ==
    JString([i \in DOMAIN v.chars |->
                IF v.chars[i] \in 65..90 THEN v.chars[i] + 32 ELSE v.chars[i]])

\* the text of a created_at timestamp, 2024-01-DDTHH:00:00+OO:00, is kept as
\* its varying fields <<DD, HH, OO>>: two such texts compare as strings the
\* way the triples compare field by field
Timestamp(day, hour, offset) == JString(<<day, hour, offset>>)

\* hours from 1970-01-01T00:00Z to 2023-12-31T00:00Z ("day 0" of 2024-01)
HoursTo2024 == 473328

\* new Date(value): the instant, in hours since the epoch, that a timestamp
\* denotes; the epoch itself for null; Invalid Date for undefined
newDate(v) ==
    CASE v.class = "String" ->
            JDate(HoursTo2024 + (v.chars[1] * 24 + v.chars[2]) - v.chars[3])
      [] v.class = "Null" -> JDate(0)
      [] OTHER -> InvalidDate

\* ToNumber of an operand of < that is not compared as a string: the time
\* value of a Date, 0 for null, NaN for Invalid Date, for undefined and for a
\* string that is not a numeral (no name, e-mail or timestamp here is one)
ToNumber(v) ==
    CASE v.class = "Date" -> [nan |-> FALSE, n |-> v.time]
      [] v.class = "Null" -> [nan |-> FALSE, n |-> 0]
      [] OTHER -> [nan |-> TRUE, n |-> 0]

\* x < y on two strings: by code units, a proper prefix is smaller
StringLess(x, y) ==
    LET n == IF Len(x) < Len(y) THEN Len(x) ELSE Len(y)
        differ == {i \in 1..n : x[i] # y[i]}
    IN  IF differ = {} THEN Len(x) < Len(y)
        ELSE LET i == CHOOSE j \in differ : \A k \in differ : j <= k
             IN  x[i] < y[i]

\* x < y of the comparator: two strings by code units, anything else by
\* ToNumber, where a NaN on either side makes the comparison false
Less(x, y) ==
    IF typeof(x) = "string" /\ typeof(y) = "string"
    THEN StringLess(x.chars, y.chars)
    ELSE /\ ~ToNumber(x).nan
         /\ ~ToNumber(y).nan
         /\ ToNumber(x).n < ToNumber(y).n

\* ---------------------------------------------- the records of the listing
User(id, name, email, created_at) ==
    [id |-> id, name |-> JString(name), email |-> JString(email),
     created_at |-> created_at]

\* "beta", "Alpha", "gamma", "alpha", "Beta"; e-mails "c@x", "B@x", "a@x", "D@x",
\* "e@x"; uBeta and uAlphaLower are created at the same instant under
\* different texts, uBetaUpper has the greatest text and the earliest instant
uBeta == User(1, <<98, 101, 116, 97>>, <<99, 64, 120>>, Timestamp(15, 12, 0))
uAlpha == User(2, <<65, 108, 112, 104, 97>>, <<66, 64, 120>>,
               Timestamp(15, 13, 0))
uGamma == User(3, <<103, 97, 109, 109, 97>>, <<97, 64, 120>>,
               Timestamp(15, 12, 0))
uAlphaLower == User(4, <<97, 108, 112, 104, 97>>, <<68, 64, 120>>,
                    Timestamp(16, 0, 12))
uBetaUpper == User(5, <<66, 101, 116, 97>>, <<101, 64, 120>>,
                   Timestamp(16, 1, 14))
Users == {uBeta, uAlpha, uGamma, uAlphaLower, uBetaUpper}

\* response.users of GET /users in the session model
UserLists == {<<>>, <<uBeta, uAlpha, uGamma>>}

\* every list of distinct records of at most MaxRecords entries
RecordLists ==
    UNION {{l \in [1..n -> Users] : \A i, j \in 1..n : l[i] = l[j] => i = j}
           : n \in 0..MaxRecords}

\* records that lack a value: "zeta" without a name (null), "delta" without an
\* e-mail (null), "eta" whose created_at is null, "theta" without created_at
uNoName == [User(6, <<122, 101, 116, 97>>, <<102, 64, 120>>,
                 Timestamp(15, 14, 0)) EXCEPT !.name = JNull]
uNoEmail == [User(7, <<100, 101, 108, 116, 97>>, <<103, 64, 120>>,
                  Timestamp(15, 11, 0)) EXCEPT !.email = JNull]
uNoDate == [User(8, <<101, 116, 97>>, <<104, 64, 120>>,
                 Timestamp(15, 12, 0)) EXCEPT !.created_at = JNull]
uMissingDate == [User(9, <<116, 104, 101, 116, 97>>, <<105, 64, 120>>,
                      Timestamp(15, 12, 0)) EXCEPT !.created_at = JUndefined]
Incomplete == {uNoName, uNoEmail, uNoDate, uMissingDate}

\* the lists of distinct records of at most MaxRecords entries that hold a
\* record lacking a value
NullableLists ==
    UNION {{l \in [1..n -> {uBeta, uAlpha} \cup Incomplete] :
               /\ \A i, j \in 1..n : l[i] = l[j] => i = j
               /\ \E i \in 1..n : l[i] \in Incomplete}
           : n \in 0..MaxRecords}

Fields == {"name", "email", "created_at"}
Directions == {"asc", "desc"}

\* --------------------------------------------------------------- UserTable
\* (variant) the comparator never looks at the direction
compare_ascendingOnly(a, b, sortField, sortDirection) ==
    LET aField == a[sortField]
        bField == b[sortField]
        aDate == IF sortField = "created_at" THEN newDate(aField) ELSE aField
        bDate == IF sortField = "created_at" THEN newDate(bField) ELSE bField
        aValue == IF typeof(aDate) = "string" THEN toLowerCase(aDate) ELSE aDate
        bValue == IF typeof(aDate) = "string" THEN toLowerCase(bDate) ELSE bDate
    IN  IF Less(aValue, bValue) THEN -1
        ELSE IF Less(bValue, aValue) THEN 1 ELSE 0

\* (variant) the strings are compared as they are, without toLowerCase
compare_caseSensitive(a, b, sortField, sortDirection) ==
    LET aField == a[sortField]
        bField == b[sortField]
        aValue == IF sortField = "created_at" THEN newDate(aField) ELSE aField
        bValue == IF sortField = "created_at" THEN newDate(bField) ELSE bField
    IN  IF Less(aValue, bValue)
        THEN (IF sortDirection = "asc" THEN -1 ELSE 1)
        ELSE IF Less(bValue, aValue)
             THEN (IF sortDirection = "asc" THEN 1 ELSE -1)
             ELSE 0

\* (variant) created_at is compared as the text it is, without new Date
compare_datesAsText(a, b, sortField, sortDirection) ==
    LET aField == a[sortField]
        bField == b[sortField]
        aValue == IF typeof(aField) = "string" THEN toLowerCase(aField) ELSE aField
        bValue == IF typeof(aField) = "string" THEN toLowerCase(bField) ELSE bField
    IN  IF Less(aValue, bValue)
        THEN (IF sortDirection = "asc" THEN -1 ELSE 1)
        ELSE IF Less(bValue, aValue)
             THEN (IF sortDirection = "asc" THEN 1 ELSE -1)
             ELSE 0

\* the comparator handed to sort(): -1, 0 or 1
compare(a, b, sortField, sortDirection) ==
    LET aField == a[sortField]
        bField == b[sortField]
        aDate == IF sortField = "created_at" THEN newDate(aField) ELSE aField
        bDate == IF sortField = "created_at" THEN newDate(bField) ELSE bField
        aValue == IF typeof(aDate) = "string" THEN toLowerCase(aDate) ELSE aDate
        bValue == IF typeof(aDate) = "string" THEN toLowerCase(bDate) ELSE bDate
    IN  IF Less(aValue, bValue)
        THEN (IF sortDirection = "asc" THEN -1 ELSE 1)
        ELSE IF Less(bValue, aValue)
             THEN (IF sortDirection = "asc" THEN 1 ELSE -1)
             ELSE 0

\* the comparator throws a TypeError instead of returning: aValue is a string
\* and bValue, null or undefined, has no toLowerCase
throws(a, b, sortField) ==
    LET aDate == IF sortField = "created_at" THEN newDate(a[sortField])
                 ELSE a[sortField]
        bDate == IF sortField = "created_at" THEN newDate(b[sortField])
                 ELSE b[sortField]
    IN  typeof(aDate) = "string" /\ typeof(bDate) # "string"

\* one call of the comparator by the sort, on an element e that stands before
\* the element x in the array: whether it throws, and how e orders against x
callThrows(e, x, sortField) ==
    IF engine = "earlierFirst" THEN throws(e, x, sortField)
    ELSE throws(x, e, sortField)
callOrder(e, x, sortField, sortDirection) ==
    IF engine = "earlierFirst" THEN compare(e, x, sortField, sortDirection)
    ELSE 0 - compare(x, e, sortField, sortDirection)

\* (variant) a sort that puts an element before the ones it ties with
RECURSIVE ArraySort_unstable(_, _, _)
ArraySort_unstable(arr, sortField, sortDirection) ==
    IF arr = <<>> THEN [threw |-> FALSE, arr |-> <<>>]
    ELSE LET n == Len(arr)
             rest == ArraySort_unstable(SubSeq(arr, 1, n - 1), sortField,
                                        sortDirection)
             acc == rest.arr
             x == arr[n]
             called == {j \in 1..Len(acc) :
                          \A i \in (j + 1)..Len(acc) :
                              /\ ~callThrows(acc[i], x, sortField)
                              /\ callOrder(acc[i], x, sortField, sortDirection) >= 0}
             smaller == {j \in called :
                           /\ ~callThrows(acc[j], x, sortField)
                           /\ callOrder(acc[j], x, sortField, sortDirection) < 0}
             k == IF smaller = {} THEN 0
                  ELSE CHOOSE j \in smaller : \A i \in smaller : i <= j
         IN  IF rest.threw \/ \E j \in called : callThrows(acc[j], x, sortField)
             THEN [threw |-> TRUE, arr |-> <<>>]
             ELSE [threw |-> FALSE,
                   arr |-> SubSeq(acc, 1, k) \o <<x>> \o SubSeq(acc, k + 1, Len(acc))]

\* Array.prototype.sort(comparator): a stable sort (ECMAScript 2019), here by
\* insertion: an element is compared with the ones before it, last first, up
\* to the first that does not compare greater, and goes behind that one; a
\* call of the comparator that throws ends the sort
RECURSIVE ArraySort(_, _, _)
ArraySort(arr, sortField, sortDirection) ==
    IF arr = <<>> THEN [threw |-> FALSE, arr |-> <<>>]
    ELSE LET n == Len(arr)
             rest == ArraySort(SubSeq(arr, 1, n - 1), sortField, sortDirection)
             acc == rest.arr
             x == arr[n]
             called == {j \in 1..Len(acc) :
                          \A i \in (j + 1)..Len(acc) :
                              /\ ~callThrows(acc[i], x, sortField)
                              /\ callOrder(acc[i], x, sortField, sortDirection) > 0}
             notGreater == {j \in called :
                              /\ ~callThrows(acc[j], x, sortField)
                              /\ callOrder(acc[j], x, sortField, sortDirection) <= 0}
             k == IF notGreater = {} THEN 0
                  ELSE CHOOSE j \in notGreater : \A i \in notGreater : i <= j
         IN  IF rest.threw \/ \E j \in called : callThrows(acc[j], x, sortField)
             THEN [threw |-> TRUE, arr |-> <<>>]
             ELSE [threw |-> FALSE,
                   arr |-> SubSeq(acc, 1, k) \o <<x>> \o SubSeq(acc, k + 1, Len(acc))]

\* Array.prototype.reverse
Reverse(arr) == [i \in 1..Len(arr) |-> arr[Len(arr) + 1 - i]]

\* what the memo holds once [...users].sort(...) has returned or thrown
memoValue(users, sorted) ==
    [users |-> users, sorted |-> sorted.arr, threw |-> sorted.threw]

\* (variant) descending is the ascending result reversed
sortedUsersMemo_reverseForDesc(users, sortField, sortDirection) ==
    IF Len(users) = 0
    THEN [users |-> users, sorted |-> <<>>, threw |-> FALSE]
    ELSE [users |-> users,
          sorted |-> IF sortDirection = "asc"
                     THEN ArraySort(users, sortField, "asc").arr
                     ELSE Reverse(ArraySort(users, sortField, "asc").arr),
          threw |-> ArraySort(users, sortField, "asc").threw]

\* (variant) users.sort(...) without the copy: the prop itself is sorted
sortedUsersMemo_inPlace(users, sortField, sortDirection) ==
    IF Len(users) = 0
    THEN [users |-> users, sorted |-> <<>>, threw |-> FALSE]
    ELSE [users |-> ArraySort(users, sortField, sortDirection).arr,
          sorted |-> ArraySort(users, sortField, sortDirection).arr,
          threw |-> ArraySort(users, sortField, sortDirection).threw]

\* the useMemo callback of sortedUsers: the value it returns (sorted), the
\* array it was handed as the call leaves it (users), and whether it threw
sortedUsersMemo(users, sortField, sortDirection) ==
    IF Len(users) = 0
    THEN [users |-> users, sorted |-> <<>>, threw |-> FALSE]
    ELSE memoValue(users, ArraySort(users, sortField, sortDirection))

\* (variant) a new column keeps the direction of the previous one
handleSort_keepDirection(t, field) ==
    IF t.sortField = field
    THEN [t EXCEPT !.sortDirection = IF @ = "asc" THEN "desc" ELSE "asc"]
    ELSE [t EXCEPT !.sortField = field]

\* (variant) the active column is always set to descending
handleSort_alwaysDesc(t, field) ==
    IF t.sortField = field
    THEN [t EXCEPT !.sortDirection = "desc"]
    ELSE [t EXCEPT !.sortField = field, !.sortDirection = "asc"]

\* handleSort(field) on the state of the UserTable
handleSort(t, field) ==
    IF t.sortField = field
    THEN [t EXCEPT !.sortDirection = IF @ = "asc" THEN "desc" ELSE "asc"]
    ELSE [t EXCEPT !.sortField = field, !.sortDirection = "asc"]

\* (variant) the active column always shows the chevron that points up
getSortIcon_alwaysUp(t, field) ==
    IF t.sortField # field
    THEN [icon |-> "ChevronUp", color |-> "textMuted"]
    ELSE [icon |-> "ChevronUp", color |-> "primary"]

\* getSortIcon(field): the chevron drawn in the header of a column
getSortIcon(t, field) ==
    IF t.sortField # field
    THEN [icon |-> "ChevronUp", color |-> "textMuted"]
    ELSE IF t.sortDirection = "asc"
         THEN [icon |-> "ChevronUp", color |-> "primary"]
         ELSE [icon |-> "ChevronDown", color |-> "primary"]

\* the headers that carry onClick={() => handleSort(...)}: "Nombre" and
\* "Fecha de Creacion"; the "Correo Electronico" header has no handler
SortableHeaders == {"name", "created_at"}

\* what a click on the header of a column does to the state of the table
onClick(t, field) ==
    IF field \in SortableHeaders THEN handleSort(t, field) ELSE t

\* what UserTable returns: the spinner while loading, the "No hay Usuarios
\* Registrados" box for an empty list, else the table; nothing once the
\* render has thrown
branch(page, table) ==
    IF table.threw THEN "nothing"
    ELSE IF page.loading THEN "Cargando Usuarios..."
    ELSE IF Len(page.users) = 0 THEN "No hay Usuarios Registrados"
    ELSE "table"

\* the render that follows a state change: the memo is evaluated on the users
\* prop and the sort state
rendered(s, memo) ==
    [s EXCEPT !.usersPage.users = memo.users,
              !.userTable.sortedUsers = memo.sorted,
              !.userTable.threw = @ \/ memo.threw]
render(s) ==
    rendered(s, sortedUsersMemo(s.usersPage.users, s.userTable.sortField,
                                s.userTable.sortDirection))

\* ------------------------------------------------------------ localStorage
\* the store is the function from the keys that are set to their values
getItem(s, key) == IF key \in DOMAIN s.storage THEN s.storage[key] ELSE Absent
setItem(s, key, value) ==
    [s EXCEPT !.storage = [k \in DOMAIN @ \cup {key} |->
                              IF k = key THEN value ELSE @[k]]]
removeItem(s, key) ==
    [s EXCEPT !.storage = [k \in DOMAIN @ \ {key} |-> @[k]]]

\* JSON.stringify / JSON.parse of the identity record {id, name, email}
JSONstringify(u) == <<"{", <<"id", u.id>>, <<"name", u.name>>,
                      <<"email", u.email>>, "}">>
JSONparse(str) == [id |-> str[2][2], name |-> str[3][2], email |-> str[4][2]]

\* --------------------------------------------------------- axios instance
\* (variant) the header is built without testing the token
requestInterceptor_unconditional(s) == <<"Bearer", getItem(s, "authToken")>>

\* request interceptor: the Authorization header of an outgoing request
Bearer(token) == <<"Bearer", token>>
requestInterceptor(s) ==
    LET token == getItem(s, "authToken")
    IN  IF token # Absent THEN Bearer(token) ELSE NoHeader

\* the outstanding requests are a bag: two equal requests may be outstanding
Outstanding(s) == BagCardinality(s.inflight)
CountOf(B, r) == IF r \in DOMAIN B THEN B[r] ELSE 0

\* api.post / api.get: the request leaves with the header the interceptor set
send(s, kind) ==
    LET req == [kind |-> kind, auth |-> requestInterceptor(s), mounted |-> TRUE]
    IN  [s EXCEPT !.inflight = @ (+) SetToBag({req}),
                  !.sent = req]

\* (variant) only the token key is removed on a 401
responseInterceptor_tokenOnly(s, outcome) ==
    IF outcome = "401"
    THEN [removeItem(s, "authToken") EXCEPT !.href = "/login"]
    ELSE s

\* response interceptor, error branch: on status 401 both keys are removed and
\* window.location.href is assigned; the browser performs that navigation once
\* the rejection has run through the caller's catch/finally (see settle)
responseInterceptor(s, outcome) ==
    IF outcome = "401"
    THEN [removeItem(removeItem(s, "authToken"), "user") EXCEPT !.href = "/login"]
    ELSE s

\* ------------------------------------------------------------------ routing
\* App.jsx <Routes>: "/" and every unknown path render <Navigate to="/login">
Route(path) ==
    IF path \in {"/login", "/register", "/user-created", "/users"} THEN path
    ELSE "/login"

\* the page whose component instance issued a request of this kind
OwnerPage(kind) ==
    CASE kind = "login" -> "/login"
      [] kind = "register" -> "/register"
      [] OTHER -> "/users"

\* (variant) the sort state of the table outlives the component
unmount_keepSort(s) ==
    [s EXCEPT !.loginPage = LoginPageInit,
              !.registerPage = RegisterPageInit,
              !.usersPage = UsersPageInit,
              !.clicks = <<>>,
              !.countdown = INITIAL_COUNTDOWN,
              !.inflight =
                  LET Orphan(r) == IF OwnerPage(r.kind) = s.location
                                   THEN [r EXCEPT !.mounted = FALSE] ELSE r
                      Mounted(r) == [r EXCEPT !.mounted = TRUE]
                  IN  [x \in {Orphan(r) : r \in DOMAIN s.inflight} |->
                         (IF Orphan(x) = x THEN CountOf(s.inflight, x) ELSE 0)
                         + (IF ~x.mounted /\ OwnerPage(x.kind) = s.location
                            THEN CountOf(s.inflight, Mounted(x)) ELSE 0)]]

\* the current page's component is unmounted: its state is gone, its interval is
\* cleared (UserCreatedPage cleanup), and the requests it issued keep running
\* with setters that no longer reach a mounted component
unmount(s) ==
    [s EXCEPT !.loginPage = LoginPageInit,
              !.registerPage = RegisterPageInit,
              !.usersPage = UsersPageInit,
              !.userTable = UserTableInit,
              !.clicks = <<>>,
              !.countdown = INITIAL_COUNTDOWN,
              !.inflight =
                  LET Orphan(r) == IF OwnerPage(r.kind) = s.location
                                   THEN [r EXCEPT !.mounted = FALSE] ELSE r
                      Mounted(r) == [r EXCEPT !.mounted = TRUE]
                  IN  [x \in {Orphan(r) : r \in DOMAIN s.inflight} |->
                         (IF Orphan(x) = x THEN CountOf(s.inflight, x) ELSE 0)
                         + (IF ~x.mounted /\ OwnerPage(x.kind) = s.location
                            THEN CountOf(s.inflight, Mounted(x)) ELSE 0)]]

\* UsersPage: loadUsers up to its await
loadUsers(s) == send([s EXCEPT !.usersPage.loading = TRUE], "getUsers")

\* (variant) the effect loads the users whatever the store holds
usersPageEffect_noGuard(s) == loadUsers(s)

\* (variant) the effect starts the fetch before it looks at the token
usersPageEffect_fetchFirst(s) ==
    IF getItem(s, "authToken") = Absent
    THEN [unmount(loadUsers(s)) EXCEPT !.location = "/login"]
    ELSE loadUsers(s)

\* UsersPage useEffect(() => {...}, [navigate]): the route guard
usersPageEffect(s) ==
    IF getItem(s, "authToken") = Absent
    THEN [unmount(s) EXCEPT !.location = "/login"]
    ELSE loadUsers(s)

\* a route element is mounted with its initial state and its effects run
mount(s, target) ==
    LET m == [s EXCEPT !.location = target]
    IN  IF target = "/users" THEN usersPageEffect(m) ELSE m

\* react-router navigate(path): the same route element stays mounted
navigate(s, path) ==
    IF Route(path) = s.location THEN s
    ELSE mount(unmount(s), Route(path))

\* a document load (address bar, reload, window.location.href = ...): every
\* outstanding request and timer of the old document is dropped
loadDocument(s, path) ==
    mount([unmount(s) EXCEPT !.inflight = EmptyBag,
                             !.timers = 0,
                             !.href = Absent],
          Route(path))

\* end of a handler run: a pending window.location.href assignment is performed
settle(s) == IF s.href # Absent THEN loadDocument(s, s.href) ELSE s

\* ------------------------------------------------------ setters of a page
\* a setter reaches the state only while the instance that owns it is mounted
LoginMounted(s, req) == req.mounted /\ s.location = "/login"
RegisterMounted(s, req) == req.mounted /\ s.location = "/register"
UsersMounted(s, req) == req.mounted /\ s.location = "/users"

setLoginError(s, req, e) ==
    IF LoginMounted(s, req) THEN [s EXCEPT !.loginPage.error = e] ELSE s
setLoginLoading(s, req, b) ==
    IF LoginMounted(s, req) THEN [s EXCEPT !.loginPage.loading = b] ELSE s
setRegisterError(s, req, e) ==
    IF RegisterMounted(s, req) THEN [s EXCEPT !.registerPage.error = e] ELSE s
setRegisterSuccess(s, req, m) ==
    IF RegisterMounted(s, req) THEN [s EXCEPT !.registerPage.success = m] ELSE s
setRegisterLoading(s, req, b) ==
    IF RegisterMounted(s, req) THEN [s EXCEPT !.registerPage.loading = b] ELSE s
setUsers(s, req, us) ==
    IF UsersMounted(s, req) THEN [s EXCEPT !.usersPage.users = us] ELSE s
setUsersLoading(s, req, b) ==
    IF UsersMounted(s, req) THEN [s EXCEPT !.usersPage.loading = b] ELSE s

\* a response as the handlers see it: outcome, and for the outcomes that carry
\* a body whether it has a message / a validation errors object
HasResponse(r) == r.outcome \in HttpErrors

\* ------------------------------------------------------------- LoginPage
\* handleLogin from its await on: response is the settled authAPI.login call
handleLoginCatch(s, req, r) ==
    IF HasResponse(r) /\ r.message THEN setLoginError(s, req, "response.message")
    ELSE IF r.outcome = "401" THEN setLoginError(s, req, "Credenciales incorrectas")
    ELSE IF ~r.online THEN setLoginError(s, req, "Error de conexion")
    ELSE setLoginError(s, req, "Error al iniciar sesion")

\* (variant) only the token is stored
handleLoginSuccess_tokenOnly(s, r) ==
    navigate(setItem(s, "authToken", r.token), "/users")

\* (variant) a session already in the store is kept
handleLoginSuccess_keepOld(s, r) ==
    IF getItem(s, "authToken") # Absent THEN navigate(s, "/users")
    ELSE navigate(setItem(setItem(s, "authToken", r.token),
                          "user", JSONstringify(r.user)),
                  "/users")

\* (variant) the navigation precedes the writes to the store
handleLoginSuccess_navigateFirst(s, r) ==
    setItem(setItem(navigate(s, "/users"), "authToken", r.token),
            "user", JSONstringify(r.user))

handleLoginSuccess(s, r) ==
    navigate(setItem(setItem(s, "authToken", r.token),
                     "user", JSONstringify(r.user)),
             "/users")

handleLogin(s, req, r) ==
    LET body ==
          IF r.outcome = "ok" THEN handleLoginSuccess(s, r)
          ELSE IF r.outcome = "ok_false"
          THEN setLoginError(s, req, IF r.message THEN "response.message"
                                     ELSE "Error al iniciar sesion")
          ELSE handleLoginCatch(s, req, r)
    IN  setLoginLoading(body, req, FALSE)

\* ----------------------------------------------- RegisterPage / RegisterForm
\* the Error that handleRegister's catch rethrows
handleRegisterCatch(r) ==
    IF HasResponse(r) /\ r.message THEN "response.message"
    ELSE IF HasResponse(r) /\ r.errors THEN "firstError"
    ELSE IF r.outcome = "422" THEN "Datos de registro invalidos"
    ELSE IF ~r.online THEN "Error de conexion"
    ELSE "error.message"

\* (variant) the registration response's token is stored
handleRegister_autoLogin(s, req, r) ==
    IF r.outcome = "ok"
    THEN LET s0 == setItem(setItem(s, "authToken", r.token),
                           "user", JSONstringify(r.user))
             s1 == navigate(s0, "/user-created")
             s2 == setRegisterLoading(s1, req, FALSE)
             s3 == setRegisterSuccess(s2, req, "Cuenta creada")
         IN  [s3 EXCEPT !.timers = @ + 1]
    ELSE setRegisterError(setRegisterLoading(s, req, FALSE), req,
                          handleRegisterCatch(r))

\* handleRegister from its await on, then the rest of RegisterForm.handleSubmit
handleRegister(s, req, r) ==
    IF r.outcome = "ok"
    THEN LET s1 == navigate(s, "/user-created")
             s2 == setRegisterLoading(s1, req, FALSE)
             s3 == setRegisterSuccess(s2, req, "Cuenta creada")
         IN  [s3 EXCEPT !.timers = @ + 1]
    ELSE setRegisterError(setRegisterLoading(s, req, FALSE), req,
                          handleRegisterCatch(r))

\* ---------------------------------------------------------------- UsersPage
\* loadUsers from its await on
\* (variant) the 401 branch overwrites the token with null instead of removing it
loadUsersCatch_setNull(s, req, r) ==
    LET s1 == IF r.outcome = "401"
              THEN navigate(removeItem(setItem(s, "authToken", "null"), "user"),
                            "/login")
              ELSE s
    IN  setUsers(s1, req, <<>>)

loadUsersCatch(s, req, r) ==
    LET s1 == IF r.outcome = "401"
              THEN navigate(removeItem(removeItem(s, "authToken"), "user"),
                            "/login")
              ELSE s
    IN  setUsers(s1, req, <<>>)

\* (variant) loading is reset on success only: no finally block
loadUsersResume_noFinally(s, req, r) ==
    IF r.outcome = "ok" /\ Len(r.users) > 0
    THEN setUsersLoading(setUsers(s, req, r.users), req, FALSE)
    ELSE IF r.outcome \in {"ok", "ok_false"} THEN setUsers(s, req, <<>>)
    ELSE loadUsersCatch(s, req, r)

loadUsersResume(s, req, r) ==
    LET body ==
          IF r.outcome = "ok" THEN setUsers(s, req, r.users)
          ELSE IF r.outcome = "ok_false" THEN setUsers(s, req, <<>>)
          ELSE loadUsersCatch(s, req, r)
    IN  setUsersLoading(body, req, FALSE)

\* (variant) the local session is cleared only when the server call succeeded
handleLogout_onlyOnSuccess(s, req, r) ==
    IF r.outcome = "ok"
    THEN navigate(removeItem(removeItem(s, "authToken"), "user"), "/login")
    ELSE s

\* handleLogout from its await on: the finally block
handleLogout(s, req, r) ==
    navigate(removeItem(removeItem(s, "authToken"), "user"), "/login")

\* ------------------------------------------------------------- responses
\* what the network layer can hand back: a 2xx body, an HTTP error with or
\* without a message / validation errors, or no response at all
Response(outcome, token, user, users, message, errors, online) ==
    [outcome |-> outcome, token |-> token, user |-> user, users |-> users,
     message |-> message, errors |-> errors, online |-> online]

\* error.response is absent: navigator.onLine is whatever the browser reports
NoResponse ==
    {Response("network", Absent, NoIdentity, <<>>, FALSE, FALSE, on) : on \in BOOLEAN}
    \cup {Response("timeout", Absent, NoIdentity, <<>>, FALSE, FALSE, TRUE)}

\* an HTTP error whose body has or lacks a message / an errors object
HttpError(o, m, e) == Response(o, Absent, NoIdentity, <<>>, m, e, TRUE)

\* a 2xx body with success: false
NotSuccess(m) == Response("ok_false", Absent, NoIdentity, <<>>, m, FALSE, TRUE)

\* the token a login or registration returns is a token of the user it returns
Credentials == {[token |-> "T1", user |-> [id |-> 1, name |-> "Admin",
                                           email |-> "admin@test.com"]],
                [token |-> "T2", user |-> [id |-> 2, name |-> "Ana",
                                           email |-> "ana@test.com"]]}

LoginResponses ==
    {Response("ok", c.token, c.user, <<>>, TRUE, FALSE, TRUE) : c \in Credentials}
    \cup {HttpError(o, m, FALSE) : o \in HttpErrors, m \in BOOLEAN}
    \cup {NotSuccess(m) : m \in BOOLEAN}
    \cup NoResponse
RegisterResponses ==
    {Response("ok", c.token, c.user, <<>>, TRUE, FALSE, TRUE) : c \in Credentials}
    \cup {HttpError(o, m, e) : o \in HttpErrors, m \in BOOLEAN, e \in BOOLEAN}
    \cup {NotSuccess(m) : m \in BOOLEAN}
    \cup NoResponse
UsersResponses ==
    {Response("ok", Absent, NoIdentity, us, FALSE, FALSE, TRUE) : us \in UserLists}
    \cup {HttpError(o, TRUE, FALSE) : o \in HttpErrors}
    \cup {NotSuccess(TRUE)}
    \cup NoResponse
LogoutResponses ==
    {Response("ok", Absent, NoIdentity, <<>>, TRUE, FALSE, TRUE)}
    \cup {HttpError(o, TRUE, FALSE) : o \in HttpErrors}
    \cup NoResponse

\* ------------------------------------------------------------ state record
Cur == [storage |-> storage, location |-> location, loginPage |-> loginPage,
        registerPage |-> registerPage, usersPage |-> usersPage,
        userTable |-> userTable, clicks |-> clicks,
        countdown |-> countdown, timers |-> timers, inflight |-> inflight,
        href |-> Absent, sent |-> NoRequest]

\* what a step leaves behind for the properties: the handler that ran, the
\* store and the sort state it found, and the request it sent
Event(op, kind, outcome, payload, s) ==
    [op |-> op, kind |-> kind, outcome |-> outcome, payload |-> payload,
     before |-> storage, sent |-> s.sent,
     sortBefore |-> <<userTable.sortField, userTable.sortDirection>>]

\* the step ends with the render of the tree that is then mounted
Shows(s, ev) ==
    /\ storage' = s.storage
    /\ location' = s.location
    /\ loginPage' = s.loginPage
    /\ registerPage' = s.registerPage
    /\ usersPage' = s.usersPage
    /\ userTable' = s.userTable
    /\ clicks' = s.clicks
    /\ countdown' = s.countdown
    /\ timers' = s.timers
    /\ inflight' = s.inflight
    /\ last' = ev
    /\ engine' = engine
    /\ UNCHANGED backend
Becomes(s, ev) == Shows(render(s), ev)

NoPayload == [token |-> Absent, user |-> NoIdentity]

\* the database after migrate: no user, no personal access token; the
\* server has no register request in progress and has not answered yet
EmptyDb == [users |-> <<>>, tokens |-> {}, owner |-> <<>>]
NoReply == [endpoint |-> "none", status |-> 0, bearer |-> 0, email |-> "",
            password |-> "", token |-> 0, before |-> EmptyDb]
Migrated ==
    /\ db = EmptyDb
    /\ pending = EmptyBag
    /\ reply = NoReply

Init ==
    /\ Migrated
    /\ engine \in Engines
    /\ storage = EmptyStore
    /\ location = "/login"
    /\ loginPage = LoginPageInit
    /\ registerPage = RegisterPageInit
    /\ usersPage = UsersPageInit
    /\ userTable = UserTableInit
    /\ clicks = <<>>
    /\ countdown = INITIAL_COUNTDOWN
    /\ timers = 0
    /\ inflight = EmptyBag
    /\ last = [op |-> "init", kind |-> "/", outcome |-> "", payload |-> NoPayload,
               before |-> EmptyStore, sent |-> NoRequest,
               sortBefore |-> <<"name", "asc">>]

\* ----------------------------------------------------------- user actions
\* the user opens a URL of the application or reloads the page
OpenUrl(path) ==
    /\ path \in Paths
    /\ LET s == loadDocument(Cur, path)
       IN  Becomes(s, Event("open", path, "", NoPayload, s))

\* <Link to="/register"> of LoginForm, <Link to="/login"> of RegisterForm
ClickLink ==
    /\ location \in {"/login", "/register"}
    /\ LET to == IF location = "/login" THEN "/register" ELSE "/login"
           s == navigate(Cur, to)
       IN  Becomes(s, Event("link", to, "", NoPayload, s))

\* LoginForm.handleSubmit with valid fields -> handleLogin up to its await
SubmitLogin ==
    /\ location = "/login"
    /\ ~loginPage.loading
    /\ Outstanding(Cur) < MaxInflight
    /\ LET s == send([Cur EXCEPT !.loginPage = [loading |-> TRUE, error |-> ""]],
                     "login")
       IN  Becomes(s, Event("submit", "login", "", NoPayload, s))

PendingRegistrations ==
    timers + BagCardinality([r \in {x \in DOMAIN inflight : x.kind = "register"}
                                  |-> inflight[r]])

\* RegisterForm.handleSubmit with a valid form -> handleRegister up to its await
SubmitRegister ==
    /\ location = "/register"
    /\ ~registerPage.loading
    /\ Outstanding(Cur) < MaxInflight
    /\ PendingRegistrations < MaxTimers
    /\ LET s == send([Cur EXCEPT !.registerPage =
                          [loading |-> TRUE, error |-> "", success |-> ""]],
                     "register")
       IN  Becomes(s, Event("submit", "register", "", NoPayload, s))

\* the logout button of UserTable (rendered once loading is false)
ClickLogout ==
    /\ location = "/users"
    /\ ~usersPage.loading
    /\ ~userTable.threw
    /\ Outstanding(Cur) < MaxInflight
    /\ LET s == send(Cur, "logout")
       IN  Becomes(s, Event("submit", "logout", "", NoPayload, s))

\* a click on the header of a column of the table; the table is rendered once
\* loading is false and the list is not empty
TableShown ==
    /\ location = "/users"
    /\ ~userTable.threw
    /\ ~usersPage.loading
    /\ Len(usersPage.users) > 0

ClickHeader(field) ==
    /\ field \in Fields
    /\ TableShown
    /\ Len(clicks) < MaxClicks
    /\ LET s == [Cur EXCEPT !.userTable = onClick(@, field),
                            !.clicks = Append(@, field)]
       IN  Becomes(s, Event("header", field, "", NoPayload, s))

\* ------------------------------------------------------ responses arriving
Take(req) == [Cur EXCEPT !.inflight = @ (-) SetToBag({req})]

\* the step that answers a request also records the header it was sent with
Answers(req, outcome, payload, s) ==
    Event("response", req.kind, outcome, payload, s) @@ [auth |-> req.auth]

LoginResponse(req, r) ==
    /\ req.kind = "login"
    /\ LET s == settle(handleLogin(responseInterceptor(Take(req), r.outcome),
                                   req, r))
       IN  Becomes(s, Answers(req, r.outcome,
                              [token |-> r.token, user |-> r.user], s))

RegisterResponse(req, r) ==
    /\ req.kind = "register"
    /\ LET s == settle(handleRegister(responseInterceptor(Take(req), r.outcome),
                                      req, r))
       IN  Becomes(s, Answers(req, r.outcome, NoPayload, s))

UsersResponse(req, r) ==
    /\ req.kind = "getUsers"
    /\ LET s == settle(loadUsersResume(responseInterceptor(Take(req), r.outcome),
                                       req, r))
       IN  Becomes(s, Answers(req, r.outcome,
                              [users |-> r.users, mounted |-> req.mounted], s))

LogoutResponse(req, r) ==
    /\ req.kind = "logout"
    /\ LET s == settle(handleLogout(responseInterceptor(Take(req), r.outcome),
                                    req, r))
       IN  Becomes(s, Answers(req, r.outcome, NoPayload, s))

\* ------------------------------------------------------------------ timers
\* RegisterForm: setTimeout(() => navigate('/login'), 2000)
RedirectTimer ==
    /\ timers > 0
    /\ LET s == navigate([Cur EXCEPT !.timers = @ - 1], "/login")
       IN  Becomes(s, Event("timer", "redirect", "", NoPayload, s))

\* UserCreatedPage: one tick of the setInterval countdown
CountdownTick ==
    /\ location = "/user-created"
    /\ LET s == IF countdown <= 1
                THEN navigate([Cur EXCEPT !.countdown = 0], "/login")
                ELSE [Cur EXCEPT !.countdown = @ - 1]
       IN  Becomes(s, Event("timer", "countdown", "", NoPayload, s))

\* UserCreatedPage buttons: "Ir al Login Ahora" and "Volver al inicio"
ClickGoToLogin ==
    /\ location = "/user-created"
    /\ \E to \in {"/login", "/"} :
         LET s == navigate(Cur, to)
         IN  Becomes(s, Event("click", to, "", NoPayload, s))

Next ==
    \/ \E path \in Paths : OpenUrl(path)
    \/ ClickLink
    \/ SubmitLogin
    \/ SubmitRegister
    \/ ClickLogout
    \/ \E req \in BagToSet(inflight), r \in LoginResponses : LoginResponse(req, r)
    \/ \E req \in BagToSet(inflight), r \in RegisterResponses : RegisterResponse(req, r)
    \/ \E req \in BagToSet(inflight), r \in UsersResponses : UsersResponse(req, r)
    \/ \E req \in BagToSet(inflight), r \in LogoutResponses : LogoutResponse(req, r)
    \/ RedirectTimer
    \/ CountdownTick
    \/ ClickGoToLogin

Spec == Init /\ [][Next]_vars

\* ------------------------------------------------- the listing on its own
\* Spec follows the session and leaves the column headers alone; SpecSort
\* follows the listing: it starts once a login has succeeded and GET /users
\* has answered with a list of records, and from there the headers are
\* clicked, the page is reloaded and the fetch of the reload is answered
Fresh == [storage |-> EmptyStore, location |-> "/login",
          loginPage |-> LoginPageInit, registerPage |-> RegisterPageInit,
          usersPage |-> UsersPageInit, userTable |-> UserTableInit,
          clicks |-> <<>>, countdown |-> INITIAL_COUNTDOWN, timers |-> 0,
          inflight |-> EmptyBag, href |-> Absent, sent |-> NoRequest]

Listing(c, recs) ==
    LET loggedIn == handleLoginSuccess(Fresh, c)
        req == loggedIn.sent
        answer == Response("ok", Absent, NoIdentity, recs, FALSE, FALSE, TRUE)
    IN  render(loadUsersResume([loggedIn EXCEPT !.inflight = EmptyBag,
                                                !.sent = NoRequest],
                               req, answer))

\* the listing does not look at who has logged in: one Credential stands for
\* any
ListingCredential == CHOOSE c \in Credentials : c.token = "T1"

ListingOf(lists) ==
    \E c \in {ListingCredential}, recs \in lists :
        LET s == Listing(c, recs)
        IN  /\ Migrated
            /\ engine \in Engines
            /\ storage = s.storage
            /\ location = s.location
            /\ loginPage = s.loginPage
            /\ registerPage = s.registerPage
            /\ usersPage = s.usersPage
            /\ userTable = s.userTable
            /\ clicks = s.clicks
            /\ countdown = s.countdown
            /\ timers = s.timers
            /\ inflight = s.inflight
            /\ last = [op |-> "response", kind |-> "getUsers", outcome |-> "ok",
                       payload |-> [users |-> recs, mounted |-> TRUE],
                       before |-> s.storage,
                       sent |-> NoRequest, sortBefore |-> <<"name", "asc">>,
                       auth |-> Bearer(c.token)]

\* GET /users answering the listing: any list of records, or a failure
ListingResponses ==
    {Response("ok", Absent, NoIdentity, recs, FALSE, FALSE, TRUE)
        : recs \in RecordLists}
    \cup {HttpError(o, TRUE, FALSE) : o \in HttpErrors}
    \cup {NotSuccess(TRUE)}
    \cup NoResponse

\* the page is reloaded while the listing is open
Reload == location = "/users" /\ OpenUrl("/users")

InitSort == ListingOf(RecordLists)

\* the listing handed records that lack a value
InitNull == ListingOf(NullableLists)

NextSort ==
    \/ \E field \in Fields : ClickHeader(field)
    \/ Reload
    \/ \E req \in BagToSet(inflight), r \in ListingResponses : UsersResponse(req, r)

SpecSort == InitSort /\ [][NextSort]_vars

SpecNull == InitNull /\ [][NextSort]_vars

\* ============================================================== the server
\* AuthController and the routes of routes/api.php over the users table and
\* Sanctum's personal_access_tokens table.  db.users is the users table (a
\* row's id is its position), db.owner the user of every token ever issued
\* (a token's id is its position) and db.tokens the ids of the token rows
\* still in the table.  A bearer is the id of the token it names, 0 when the
\* request carries none; an id that was never issued is a made-up bearer.
MaxTokens == 3            \* personal access tokens issued
MaxPending == 2           \* register requests between validation and insert
Emails == {"ana@skye.mx", "luis@skye.mx"}
Passwords == {"secret1", "secret2"}
NoBearer == 0
Bearers == 0 .. MaxTokens

HashMake(password) == <<"bcrypt", password>>
HashCheck(password, hash) == hash = HashMake(password)

\* User::where('email', ...) and ->first(): the ids of the matching rows,
\* the lowest of them, 0 for null
UserWhereEmail(d, email) == {i \in DOMAIN d.users : d.users[i].email = email}
first(ids) == IF ids = {} THEN 0 ELSE CHOOSE i \in ids : \A j \in ids : i <= j

\* $user->createToken('auth-token'): a new row of personal_access_tokens
createToken(d, user) ==
    LET id == Len(d.owner) + 1
    IN  [db |-> [d EXCEPT !.owner = Append(@, user), !.tokens = @ \cup {id}],
         token |-> id]

\* the auth:sanctum middleware finds the bearer's row, and $request->user()
authSanctum_everIssued(d, bearer) == bearer \in DOMAIN d.owner
authSanctum(d, bearer) == bearer \in d.tokens
requestUser(d, bearer) == d.owner[bearer]

Answer(d, status, token) == [db |-> d, status |-> status, token |-> token]
Unauthenticated(d) == Answer(d, 401, 0)

\* AuthController::login
login(d, email, password) ==
    LET user == first(UserWhereEmail(d, email))
    IN  IF user = 0 \/ ~HashCheck(password, d.users[user].password)
        THEN Answer(d, 401, 0)
        ELSE LET t == createToken(d, user)
             IN  Answer(t.db, 200, t.token)

\* the rule unique:users,email of $request->validate in register
uniqueUsersEmail(d, email) == UserWhereEmail(d, email) = {}

\* User::create: the insert fails on the unique index of users.email
UserCreate(d, email, password) ==
    IF UserWhereEmail(d, email) # {}
    THEN [threw |-> TRUE, db |-> d]
    ELSE [threw |-> FALSE,
          db |-> [d EXCEPT !.users =
                     Append(@, [email |-> email, password |-> HashMake(password)])]]

\* AuthController::register after its validation: the try block and its catch
registerCreate(d, email, password) ==
    LET created == UserCreate(d, email, password)
    IN  IF created.threw
        THEN Answer(d, 500, 0)
        ELSE LET t == createToken(created.db, Len(created.db.users))
             IN  Answer(t.db, 201, t.token)

\* AuthController::logout: $request->user()->tokens()->delete()
logout_currentOnly(d, bearer) == Answer([d EXCEPT !.tokens = @ \ {bearer}], 200, 0)
logout(d, bearer) ==
    Answer([d EXCEPT !.tokens =
               {t \in @ : d.owner[t] # requestUser(d, bearer)}], 200, 0)

\* UserController::index and the closure of GET /user read the tables
index(d) == Answer(d, 200, 0)
user(d) == Answer(d, 200, 0)

\* the routes inside Route::middleware('auth:sanctum')->group
protected(d, bearer, endpoint) ==
    IF ~authSanctum(d, bearer) THEN Unauthenticated(d)
    ELSE CASE endpoint = "POST /auth/logout" -> logout(d, bearer)
           [] endpoint = "GET /users" -> index(d)
           [] endpoint = "GET /user" -> user(d)
ProtectedEndpoints == {"POST /auth/logout", "GET /users", "GET /user"}
PublicEndpoints == {"POST /auth/login", "POST /auth/register"}

\* the server answers a request: the tables it leaves and what the client
\* is told, with the tables it found
Replies(a, endpoint, bearer, email, password) ==
    /\ a.token = 0 \/ Len(db.owner) < MaxTokens
    /\ db' = a.db
    /\ reply' = [endpoint |-> endpoint, status |-> a.status, bearer |-> bearer,
                 email |-> email, password |-> password, token |-> a.token,
                 before |-> db]
    /\ UNCHANGED frontend

PostLogin(email, password) ==
    /\ Replies(login(db, email, password), "POST /auth/login", NoBearer,
               email, password)
    /\ UNCHANGED pending

\* POST /auth/register up to the end of its validation: a 422, or the
\* request goes on to the insert, which other requests may precede
PostRegister(email, password) ==
    IF uniqueUsersEmail(db, email)
    THEN /\ BagCardinality(pending) < MaxPending
         /\ pending' = pending (+) SetToBag({[email |-> email, password |-> password]})
         /\ UNCHANGED <<db, reply, frontend>>
    ELSE /\ Replies(Answer(db, 422, 0), "POST /auth/register", NoBearer,
                    email, password)
         /\ UNCHANGED pending

RegisterInsert(req) ==
    /\ BagIn(req, pending)
    /\ Replies(registerCreate(db, req.email, req.password),
               "POST /auth/register", NoBearer, req.email, req.password)
    /\ pending' = pending (-) SetToBag({req})

Protected(endpoint, bearer) ==
    /\ Replies(protected(db, bearer, endpoint), endpoint, bearer, "", "")
    /\ UNCHANGED pending

PostLogout(bearer) == Protected("POST /auth/logout", bearer)
GetUsers(bearer) == Protected("GET /users", bearer)
GetUser(bearer) == Protected("GET /user", bearer)

NextApi ==
    \/ \E email \in Emails, password \in Passwords : PostLogin(email, password)
    \/ \E email \in Emails, password \in Passwords : PostRegister(email, password)
    \/ \E req \in BagToSet(pending) : RegisterInsert(req)
    \/ \E bearer \in Bearers : PostLogout(bearer)
    \/ \E bearer \in Bearers : GetUsers(bearer)
    \/ \E bearer \in Bearers : GetUser(bearer)

SpecApi == Init /\ [][NextApi]_vars

\* =================================================================== claims
HasCredential == "authToken" \in DOMAIN storage
SessionEmpty == DOMAIN storage = {}
Responded(kind, outcome) ==
    last.op = "response" /\ last.kind = kind /\ last.outcome = outcome

\* C1: once a request of the API client has completed with status 401, both
\* 'authToken' and 'user' are absent, the location is /login, and the handler
\* run has sent no request again.
C1_UnauthorizedInvalidates ==
    (last.op = "response" /\ last.outcome = "401")
        => /\ "authToken" \notin DOMAIN storage
           /\ "user" \notin DOMAIN storage
           /\ location = "/login"
           /\ last.sent = NoRequest

\* a 401 answers a login that was sent while a session was in the store
C1_Witness ==
    /\ Responded("login", "401")
    /\ "authToken" \in DOMAIN last.before

\* C2: 'authToken' and 'user' are both present or both absent in every state.
C2_KeysPaired == ("authToken" \in DOMAIN storage) <=> ("user" \in DOMAIN storage)

\* a login has succeeded and both keys are present
C2_Witness ==
    /\ Responded("login", "ok")
    /\ "authToken" \in DOMAIN storage
    /\ "user" \in DOMAIN storage

\* C3: the application keeps the user on the /users listing only while a
\* Credential is in the store; its guard would admit the user to /users exactly
\* when a Credential is in the store; and a user who opens /users stays there
\* with the listing being fetched exactly when a Credential is in the store.
C3_AuthenticatedIffCredential ==
    /\ location = "/users" => HasCredential
    /\ (mount(unmount(Cur), "/users").location = "/users") <=> HasCredential
    /\ (last.op = "open" /\ last.kind = "/users")
         => ((location = "/users" /\ last.sent # NoRequest
                                  /\ last.sent.kind = "getUsers")
             <=> HasCredential)

\* the user opened /users with a Credential in the store and stays there
C3_Witness ==
    /\ last.op = "open" /\ last.kind = "/users"
    /\ HasCredential
    /\ location = "/users"
    /\ last.sent # NoRequest

\* C4: once a logout request has settled, whatever its outcome, both keys are
\* absent and the route is /login.
C4_LogoutUnconditional ==
    (last.op = "response" /\ last.kind = "logout")
        => SessionEmpty /\ location = "/login"

\* the logout call failed on the server while a session was in the store
C4_Witness ==
    /\ Responded("logout", "500")
    /\ "authToken" \in DOMAIN last.before
    /\ SessionEmpty

\* C5: after a login rejected with 401 the login page shows a form-level error,
\* the location is still /login and the store is as it was before the attempt.
C5_LoginRejectedRecoveredLocally ==
    Responded("login", "401")
        => /\ location = "/login"
           /\ loginPage.error # ""
           /\ storage = last.before

\* C6: the store changes only in two ways: a successful login response writes
\* the Credential, and a settled logout or a 401 response removes it; a
\* successful registration, a user fetch and sending a logout never write it.
C6_CredentialLifecycle ==
    storage # last.before
        => \/ /\ Responded("login", "ok")
              /\ HasCredential
           \/ /\ SessionEmpty
              /\ last.op = "response"
              /\ last.kind = "logout" \/ last.outcome = "401"

\* a registration has succeeded and no Credential is in the store
C6_Witness ==
    /\ Responded("register", "ok")
    /\ location = "/user-created"
    /\ SessionEmpty

\* C7: a request leaves with the header 'Bearer t' exactly when token t is in
\* the store at that moment, and with no Authorization header otherwise.
C7_AttachIffToken ==
    last.sent # NoRequest
        => /\ HasCredential => last.sent.auth = <<"Bearer", storage["authToken"]>>
           /\ ~HasCredential => last.sent.auth = NoHeader

\* a login is sent without a header right after a user fetch left with T1
C7_Witness ==
    /\ last.sent # NoRequest
    /\ last.sent.kind = "login"
    /\ last.sent.auth = NoHeader
    /\ \E r \in DOMAIN inflight : r.kind = "getUsers" /\ r.auth = <<"Bearer", "T1">>

\* C8: after a successful login the store reads back exactly the token and the
\* identity of the response, also over an older Credential; after a logout or a
\* 401 it reads back absent.
C8_StoreRoundTrip ==
    /\ Responded("login", "ok")
         => /\ DOMAIN storage = Keys
            /\ storage["authToken"] = last.payload.token
            /\ JSONparse(storage["user"]) = last.payload.user
    /\ (last.op = "response" /\ (last.kind = "logout" \/ last.outcome = "401"))
         => DOMAIN storage = {}

\* a login has overwritten the Credential of another user
C8_Witness ==
    /\ Responded("login", "ok")
    /\ "authToken" \in DOMAIN last.before
    /\ last.before["authToken"] # last.payload.token
    /\ storage["authToken"] = last.payload.token

\* C9: removing the Credential from a store is idempotent, and after a 401 on
\* the user fetch, where the interceptor and the page both remove it, the store
\* is empty and the location is /login.
C9_InvalidateIdempotent ==
    LET Invalidate(s) == removeItem(removeItem(s, "authToken"), "user")
    IN  /\ Invalidate(Invalidate(Cur)).storage = Invalidate(Cur).storage
        /\ SessionEmpty => Invalidate(Cur).storage = storage
        /\ Responded("getUsers", "401") => SessionEmpty /\ location = "/login"

\* a user fetch that left with a token was answered 401
C9_Witness ==
    /\ Responded("getUsers", "401")
    /\ "authToken" \in DOMAIN last.before
    /\ SessionEmpty

\* C10: opening /users with no 'authToken' ends on /login with no getUsers
\* request sent, and a getUsers request is only sent with a token in the store.
C10_RouteGuard ==
    /\ (last.op = "open" /\ last.kind = "/users" /\ "authToken" \notin DOMAIN last.before)
         => /\ location = "/login"
            /\ last.sent = NoRequest
            /\ \A r \in DOMAIN inflight : r.kind # "getUsers"
    /\ (last.sent # NoRequest /\ last.sent.kind = "getUsers")
         => HasCredential /\ last.sent.auth # NoHeader

\* /users was opened with an empty store
C10_Witness ==
    /\ last.op = "open" /\ last.kind = "/users"
    /\ "authToken" \notin DOMAIN last.before
    /\ location = "/login"

\* ----------------------------------------------------------- sort control
Opposite(d) == IF d = "asc" THEN "desc" ELSE "asc"
SortState(t) == <<t.sortField, t.sortDirection>>

\* the state of the table after the header clicks cs on a fresh UserTable
RECURSIVE Replay(_)
Replay(cs) ==
    IF cs = <<>> THEN UserTableInit
    ELSE onClick(Replay(SubSeq(cs, 1, Len(cs) - 1)), cs[Len(cs)])

\* the column the last click hit
LastClick == clicks[Len(clicks)]

\* C11: handleSort(field) on the active field keeps the field and flips the
\* direction; on any other field it makes that field active with direction
\* ascending, whatever the direction was.  Stated of every handleSort a header
\* click runs, and of handleSort applied to every reachable state and field.
C11_SetSortKey ==
    /\ [][\A f \in SortableHeaders :
            (last'.op = "header" /\ last'.kind = f)
                => SortState(userTable') =
                      IF f = userTable.sortField
                      THEN <<f, Opposite(userTable.sortDirection)>>
                      ELSE <<f, "asc">>]_vars
    /\ [](\A f \in Fields :
            SortState(handleSort(userTable, f)) =
                IF f = userTable.sortField
                THEN <<f, Opposite(userTable.sortDirection)>>
                ELSE <<f, "asc">>)

\* the date header is clicked while name is active and descending
C11_Witness ==
    /\ clicks = <<"name", "created_at">>
    /\ SortState(userTable) = <<"created_at", "asc">>

\* C12 as stated: for every sort state and every field f, two handleSort(f) in
\* a row bring the direction back to what it was before them.
C12_TwiceRestoresDirection ==
    /\ (Len(clicks) >= 2 /\ LastClick = clicks[Len(clicks) - 1])
          => userTable.sortDirection =
                Replay(SubSeq(clicks, 1, Len(clicks) - 2)).sortDirection
    /\ \A f \in Fields :
          handleSort(handleSort(userTable, f), f).sortDirection =
              userTable.sortDirection

\* C12: two handleSort(f) in a row on the field f that is active bring the sort
\* state back to what it was; on any other field f they leave f active with
\* direction descending, whatever the direction was before.
C12_ToggleInvolution ==
    /\ (/\ Len(clicks) >= 2
        /\ LastClick = clicks[Len(clicks) - 1]
        /\ LastClick \in SortableHeaders)
          => LET s == Replay(SubSeq(clicks, 1, Len(clicks) - 2))
             IN  SortState(userTable) =
                    IF LastClick = s.sortField THEN SortState(s)
                    ELSE <<LastClick, "desc">>
    /\ \A f \in Fields :
          SortState(handleSort(handleSort(userTable, f), f)) =
              IF f = userTable.sortField THEN SortState(userTable)
              ELSE <<f, "desc">>

\* name is active and descending, and its header is clicked twice
C12_Witness ==
    /\ clicks = <<"name", "name", "name">>
    /\ SortState(userTable) = <<"name", "desc">>

\* the records of the scenarios, in the order the listing receives them
ScenarioRecords == <<uBeta, uAlpha, uGamma>>

\* C13 as stated: with the records beta, Alpha, gamma on a fresh listing, two
\* clicks on the name header leave the direction descending and the rows in
\* the order gamma, beta, Alpha.
C13_TwoClicksDescending ==
    (usersPage.users = ScenarioRecords /\ clicks = <<"name", "name">>)
        => /\ userTable.sortDirection = "desc"
           /\ userTable.sortedUsers = <<uGamma, uBeta, uAlpha>>

\* C13: with the records beta, Alpha, gamma on a fresh listing (name,
\* ascending), one click on the name header leaves the direction descending
\* and the rows gamma, beta, Alpha; the second click brings back ascending and
\* the rows Alpha, beta, gamma.
C13_ScenarioB ==
    usersPage.users = ScenarioRecords
        => /\ clicks = <<"name">>
                => /\ SortState(userTable) = <<"name", "desc">>
                   /\ userTable.sortedUsers = <<uGamma, uBeta, uAlpha>>
           /\ clicks = <<"name", "name">>
                => /\ SortState(userTable) = <<"name", "asc">>
                   /\ userTable.sortedUsers = <<uAlpha, uBeta, uGamma>>

C13_Witness ==
    /\ usersPage.users = ScenarioRecords
    /\ clicks = <<"name", "name">>
    /\ userTable.sortedUsers = <<uAlpha, uBeta, uGamma>>

\* C14 as stated: a click on the name header followed by a click on the e-mail
\* header leaves email the active field with direction ascending.
C14_EmailBecomesActive ==
    clicks = <<"name", "email">> => SortState(userTable) = <<"email", "asc">>

View(f, d) == sortedUsersMemo(usersPage.users, f, d).sorted
Pos(v, u) == CHOOSE i \in DOMAIN v : v[i] = u
Range(v) == {v[i] : i \in DOMAIN v}
Tied(f) ==
    {p \in (DOMAIN usersPage.users) \X (DOMAIN usersPage.users) :
        /\ p[1] < p[2]
        /\ compare(usersPage.users[p[1]], usersPage.users[p[2]], f, "asc") = 0}
Displayed == View(userTable.sortField, userTable.sortDirection)

\* C16: under every field and in both directions, two records whose keys
\* compare equal stand in the view in the order they have in the list; so when
\* the list holds such a pair, the descending view is not the ascending view
\* reversed.  The rows on display are that view.
C16_StableOrdering ==
    /\ userTable.sortedUsers = Displayed
    /\ \A f \in Fields, d \in Directions :
          LET v == View(f, d)
          IN  \A p \in Tied(f) :
                  Pos(v, usersPage.users[p[1]]) < Pos(v, usersPage.users[p[2]])
    /\ \A f \in Fields :
          Tied(f) # {} => View(f, "desc") # Reverse(View(f, "asc"))

\* alpha and Alpha tie by name and are shown descending behind beta, alpha
\* still first
C16_Witness ==
    /\ usersPage.users = <<uAlphaLower, uAlpha, uBeta>>
    /\ SortState(userTable) = <<"name", "desc">>
    /\ userTable.sortedUsers = <<uBeta, uAlphaLower, uAlpha>>

\* the key of a record under a string field, folded to lower case, and the
\* instant its created_at denotes
Folded(u, f) == toLowerCase(u[f]).chars
Instant(u) == newDate(u.created_at).time

\* C17: under name and under email the view is ordered by the value folded to
\* one case: ascending no record stands before one whose folded value is
\* smaller (descending, greater), two records whose values differ only in
\* case compare equal, and beta, Alpha, gamma shown by name ascending are
\* Alpha, beta, gamma.
C17_CaseFolded ==
    /\ \A f \in {"name", "email"}, d \in Directions :
          LET v == View(f, d)
          IN  \A a, b \in Range(usersPage.users) :
                  /\ StringLess(Folded(a, f), Folded(b, f))
                        => IF d = "asc" THEN Pos(v, a) < Pos(v, b)
                           ELSE Pos(v, b) < Pos(v, a)
                  /\ Folded(a, f) = Folded(b, f) => compare(a, b, f, d) = 0
    /\ (usersPage.users = ScenarioRecords
        /\ SortState(userTable) = <<"name", "asc">>)
          => userTable.sortedUsers = <<uAlpha, uBeta, uGamma>>

\* Beta, alpha, beta shown by name ascending: alpha first, then Beta and beta
\* as they came
C17_Witness ==
    /\ usersPage.users = <<uBetaUpper, uAlphaLower, uBeta>>
    /\ SortState(userTable) = <<"name", "asc">>
    /\ userTable.sortedUsers = <<uAlphaLower, uBetaUpper, uBeta>>

\* C18: under created_at the view is ordered by the instant: of two records
\* the one with the earlier instant stands first ascending and last
\* descending, whatever the order of the two texts.
C18_ByInstant ==
    \A d \in Directions :
        LET v == View("created_at", d)
        IN  \A a, b \in Range(usersPage.users) :
                Instant(a) < Instant(b)
                    => IF d = "asc" THEN Pos(v, a) < Pos(v, b)
                       ELSE Pos(v, b) < Pos(v, a)

\* the date header is clicked on two records of which the one with the
\* greater text is the earlier
C18_Witness ==
    /\ usersPage.users = <<uBeta, uBetaUpper>>
    /\ StringLess(uBeta.created_at.chars, uBetaUpper.created_at.chars)
    /\ Instant(uBetaUpper) < Instant(uBeta)
    /\ clicks = <<"created_at">>
    /\ userTable.sortedUsers = <<uBetaUpper, uBeta>>

\* how often a record occurs in a list
Occurrences(v, u) == Cardinality({i \in DOMAIN v : v[i] = u})

\* C19: computing the view leaves the list it is computed from as it was,
\* under every field and direction and at every header click, and the view
\* holds every record of the list exactly as often as the list does.
C19_InputUntouched ==
    /\ [](\A f \in Fields, d \in Directions :
            LET memo == sortedUsersMemo(usersPage.users, f, d)
            IN  /\ memo.users = usersPage.users
                /\ Len(memo.sorted) = Len(usersPage.users)
                /\ \A u \in Users :
                      Occurrences(memo.sorted, u) = Occurrences(usersPage.users, u))
    /\ [][last'.op = "header" => usersPage.users' = usersPage.users]_vars

\* a click changed the rows on display and the list is as it was received
C19_Witness ==
    /\ last.op = "header"
    /\ usersPage.users = ScenarioRecords
    /\ userTable.sortedUsers = <<uGamma, uBeta, uAlpha>>

\* C20: under every field and direction, the view of a view is that view.
C20_Idempotent ==
    /\ \A f \in Fields, d \in Directions :
          LET v == View(f, d)
          IN  sortedUsersMemo(v, f, d).sorted = v
    /\ sortedUsersMemo(userTable.sortedUsers, userTable.sortField,
                       userTable.sortDirection).sorted = userTable.sortedUsers

\* rows with a tie, shown descending in another order than they were received
C20_Witness ==
    /\ Tied(userTable.sortField) # {}
    /\ userTable.sortDirection = "desc"
    /\ userTable.sortedUsers # usersPage.users
    /\ sortedUsersMemo(userTable.sortedUsers, userTable.sortField,
                       userTable.sortDirection).sorted = userTable.sortedUsers

\* ------------------------------------------------------- missing values
HasValue(u, f) == u[f].class = "String"

Inactive == [icon |-> "ChevronUp", color |-> "textMuted"]
AscendingActive == [icon |-> "ChevronUp", color |-> "primary"]
DescendingActive == [icon |-> "ChevronDown", color |-> "primary"]

\* C22: for every column f the indicator is the inactive one exactly when f is
\* not the active field, the ascending one exactly when f is active and the
\* direction is asc, the descending one exactly when f is active and the
\* direction is desc; so of the indicators the table draws exactly one is
\* active, and it shows the current direction.
C22_SortIndicator ==
    /\ \A f \in Fields :
          /\ getSortIcon(userTable, f) = Inactive <=> f # userTable.sortField
          /\ getSortIcon(userTable, f) = AscendingActive
                <=> (f = userTable.sortField /\ userTable.sortDirection = "asc")
          /\ getSortIcon(userTable, f) = DescendingActive
                <=> (f = userTable.sortField /\ userTable.sortDirection = "desc")
    /\ TableShown
          => \E f \in SortableHeaders :
                /\ getSortIcon(userTable, f) =
                      IF userTable.sortDirection = "asc" THEN AscendingActive
                      ELSE DescendingActive
                /\ \A g \in SortableHeaders \ {f} :
                      getSortIcon(userTable, g) = Inactive

\* the date column is active and descending, the name column inactive
C22_Witness ==
    /\ TableShown
    /\ clicks = <<"created_at", "created_at">>
    /\ getSortIcon(userTable, "created_at") = DescendingActive
    /\ getSortIcon(userTable, "name") = Inactive

\* ------------------------------------------------------ loading and empty
\* the fetch of the UsersPage that is on screen has not been answered
FetchOutstanding ==
    /\ location = "/users"
    /\ \E req \in BagToSet(inflight) : req.kind = "getUsers" /\ req.mounted

\* the fetch of the UsersPage that is on screen was answered by this step
FetchAnswered(outcomes) ==
    /\ last.op = "response"
    /\ last.kind = "getUsers"
    /\ last.outcome \in outcomes
    /\ last.payload.mounted
    /\ location = "/users"

\* C23: while the fetch of the page on screen is outstanding the table shows
\* the loading spinner, not the "no users" box; once that fetch has returned
\* an empty list the view is the empty list, nothing has thrown, and the table
\* shows the "no users" box, not the spinner.
C23_LoadingVersusEmpty ==
    /\ FetchOutstanding => branch(usersPage, userTable) = "Cargando Usuarios..."
    /\ (FetchAnswered({"ok"}) /\ last.payload.users = <<>>)
          => /\ userTable.sortedUsers = <<>>
             /\ ~userTable.threw
             /\ branch(usersPage, userTable) = "No hay Usuarios Registrados"

\* GET /users has answered the page on screen with an empty list
C23_Witness ==
    /\ FetchAnswered({"ok"})
    /\ last.payload.users = <<>>
    /\ ~FetchOutstanding
    /\ branch(usersPage, userTable) = "No hay Usuarios Registrados"

\* --------------------------------------------------------- fetch failures
\* a fetch that failed without an authorization failure: server error, no
\* connectivity, timeout
FetchFailures == {"500", "network", "timeout"}

\* what UsersPage holds once a fetch has succeeded with an empty list
EmptyListShown == [users |-> <<>>, loading |-> FALSE]

\* C24 as stated: once the fetch of the page on screen has failed without an
\* authorization failure, the store is as it was, no request has been sent
\* again, and the page is in a state other than the one an empty list leaves.
C24_FetchFailureSurfaced ==
    FetchAnswered(FetchFailures)
        => /\ storage = last.before
           /\ last.sent = NoRequest
           /\ usersPage # EmptyListShown

\* ----------------------------------------------------------------- C25
\* the tokens ever issued, those issued to one user, and the user whose
\* request the server has just answered
Issued(d) == DOMAIN d.owner
IssuedTo(d, u) == {t \in Issued(d) : d.owner[t] = u}
Revoked(d) == Issued(d) \ d.tokens
Answered(endpoints, statuses) ==
    reply.endpoint \in endpoints /\ reply.status \in statuses
LoggedOutUser == reply.before.owner[reply.bearer]

EmailsUnique(d) ==
    \A i, j \in DOMAIN d.users : d.users[i].email = d.users[j].email => i = j
EmailTaken(d, email) == \E i \in DOMAIN d.users : d.users[i].email = email

\* C26: whatever register requests have run and however they interleaved,
\* no two rows of users have the same email, and a register request whose
\* email belongs to a user when the server answers it is answered 422 and
\* leaves both tables as they were
C26_RegisterRejectsDuplicate ==
    /\ EmailsUnique(db)
    /\ (reply.endpoint = "POST /auth/register"
            /\ EmailTaken(reply.before, reply.email)) =>
          /\ reply.status = 422
          /\ db = reply.before
          /\ reply.token = 0

\* ----------------------------------------------------------------- C27
\* the credentials of a login request are those of a row of users
CredentialsMatch(d, email, password) ==
    \E i \in DOMAIN d.users :
        d.users[i].email = email /\ HashCheck(password, d.users[i].password)

\* C27: GET /users, POST /auth/logout and GET /user answer 401 to a request
\* without a valid bearer token and leave users and tokens as they were;
\* POST /auth/login and POST /auth/register are served without a token: a
\* login with the credentials of a user is answered 200 with a new token and
\* a register of a free email 201 with a new user and token
C27_ProtectedEndpoints ==
    /\ (reply.endpoint \in ProtectedEndpoints
            /\ reply.bearer \notin reply.before.tokens) =>
          /\ reply.status = 401
          /\ db = reply.before
    /\ (reply.endpoint \in PublicEndpoints) => reply.bearer = NoBearer
    /\ (reply.endpoint = "POST /auth/login"
            /\ CredentialsMatch(reply.before, reply.email, reply.password)) =>
          /\ reply.status = 200
          /\ reply.token \in db.tokens \ Issued(reply.before)
    /\ (reply.endpoint = "POST /auth/register"
            /\ ~EmailTaken(reply.before, reply.email)) =>
          /\ reply.status = 201
          /\ EmailTaken(db, reply.email)
          /\ reply.token \in db.tokens \ Issued(reply.before)

\* users have registered and logged in without a token, tokens are valid,
\* and a request without one has just been refused by a protected endpoint
C27_Witness ==
    /\ Answered(ProtectedEndpoints, {401})
    /\ reply.bearer = NoBearer
    /\ Cardinality(db.tokens) >= 2
    /\ Len(db.users) >= 1

\* ----------------------------------------------------------------- C28
\* the request just answered was sent with a token, and not with the one
\* that was in the store when its answer arrived
StaleAnswer(outcomes) ==
    /\ last.op = "response"
    /\ last.outcome \in outcomes
    /\ last.auth # NoHeader
    /\ "authToken" \in DOMAIN last.before
    /\ last.auth # Bearer(last.before["authToken"])

\* C28: a 401 that answers a request sent with an older token leaves the
\* Credential stored since then in place: only the 401 of a request that
\* carried the stored token invalidates the session
C28_StaleFailureKeepsSession == StaleAnswer({"401"}) => storage = last.before

\* ----------------------------------------------------------------- C29
\* the confirmation page is on screen, and a step takes the user off it
OnConfirmation == location = "/user-created"
LeavesConfirmation == OnConfirmation /\ location' # "/user-created"

\* C29: once the confirmation page is shown, the only timer that takes the
\* user off it is the page's own countdown, and only with the tick that
\* finds it at 1; every other tick lowers the countdown by one, within 0..10,
\* and leaves the user on the page
C29_ConfirmationStays ==
    [][(OnConfirmation /\ last'.op = "timer") =>
          /\ last'.kind = "countdown"
          /\ countdown \in 1 .. INITIAL_COUNTDOWN
          /\ LeavesConfirmation <=> countdown = 1
          /\ ~LeavesConfirmation => countdown' = countdown - 1]_vars

\* ----------------------------------------------------------------- C30
\* the GET /users request that the users page sends with a given token
FetchWith(token) == [kind |-> "getUsers", auth |-> Bearer(token), mounted |-> TRUE]

\* C30: the step that handles a successful login ends on /users with the
\* returned token in the store; when it had to mount the users page, the
\* guard let the page stay and the fetch it sent carries exactly the returned
\* token; and whatever step sends a GET /users, the request carries the
\* token that is in the store
C30_StoredBeforeNavigation ==
    [][/\ (last'.op = "response" /\ last'.kind = "login" /\ last'.outcome = "ok") =>
             /\ location' = "/users"
             /\ "authToken" \in DOMAIN storage'
             /\ storage'["authToken"] = last'.payload.token
             /\ location # "/users" => last'.sent = FetchWith(last'.payload.token)
             /\ last'.sent \in {NoRequest, FetchWith(last'.payload.token)}
       /\ last'.sent.kind = "getUsers" =>
             /\ "authToken" \in DOMAIN storage'
             /\ last'.sent = FetchWith(storage'["authToken"])]_vars

\* a login has replaced the token of an earlier session and the users page
\* it opened has sent its fetch with the new token
C30_Witness ==
    /\ Responded("login", "ok")
    /\ location = "/users"
    /\ "authToken" \in DOMAIN last.before
    /\ last.before["authToken"] # last.payload.token
    /\ last.sent = FetchWith(last.payload.token)

====
